---- MODULE Spec2Model ----
(***************************************************************************)
(* Calculation threads of the Prismatic GUI (Qt/prism_qthreads.cpp):       *)
(* PotentialThread, ProbeThread, FullPRISMCalcThread and                   *)
(* FullMultisliceCalcThread running against one PRISMMainWindow, with its  *)
(* cached Parameters (parent->pars), readiness flags, locks, overwrite     *)
(* flag and the output files the full calculations create.                 *)
(*                                                                         *)
(* A tensor (output, DPC_CoM) is represented by one of its elements: every *)
(* tensor operation of the threads (+=, /=) is elementwise.  An element is *)
(* an exact fraction [n, d]; d = 0 is the empty array.                     *)
(***************************************************************************)
EXTENDS Integers, Sequences, FiniteSets, TLC

\* ------------------------------------------------------------------ bounds
MaxFP      == 2
MaxSeed    == 1
MaxEdits   == 1
MaxOut     == 2
MaxN       == 2
MaxVal     == 2
MaxLen     == 4
MaxSrc     == 2
MaxIdx     == 1

Threads   == {1, 2}
NoThread  == 0
Seeds     == 0..MaxSeed
\* what an output kernel can return: outcome o is the output tensor o and the
\* centre-of-mass tensor DpcOf(o), positive for odd o and negative for even o
Outcomes  == 1..MaxOut
DpcOf(o)  == IF o % 2 = 1 THEN o ELSE 0 - o
Paths     == {"a", "b"}
BadPath   == "bad"
Thick     == {1, 2}
Kinds     == {"Potential", "Probe", "FullPRISM", "FullMultislice"}
FullKinds == {"FullPRISM", "FullMultislice"}

\* ---------------------------------------------------------------- metadata
\* Metadata<T>: the fields the threads read or write, and sliceThickness as
\* the representative of the remaining physical parameters.
BaseMeta ==
  [sliceThickness |-> 1, randomSeed |-> 0, filenameOutput |-> "a",
   numFP |-> 1, fpNum |-> 0, save4DOutput |-> FALSE,
   savePotentialSlices |-> FALSE, saveDPC_CoM |-> FALSE]

InitMetas ==
  {[BaseMeta EXCEPT !.numFP = n, !.saveDPC_CoM = d] :
      n \in 1..MaxFP, d \in BOOLEAN}

\* the values a single edit of the caller can give to its metadata
EditsOf(m) ==
  ({[m EXCEPT !.sliceThickness = x] : x \in Thick}
     \cup {[m EXCEPT !.filenameOutput = p] : p \in Paths \cup {BadPath}}
     \cup {[m EXCEPT !.saveDPC_CoM = ~m.saveDPC_CoM]}) \ {m}

\* Metadata<T>::operator== : structural equality of every field
MetaEq(a, b) == a = b

\* ------------------------------------------------------ tensors, artifacts
Empty      == [n |-> 0, d |-> 0]
Val(x)     == [n |-> x, d |-> 1]
RAdd(a, b) == IF a.d = 0 THEN a     \* += on an empty array adds nothing
              ELSE [n |-> a.n * b.d + b.n * a.d, d |-> a.d * b.d]
RDiv(a, k) == [n |-> a.n, d |-> a.d * k]
REq(a, b)  == a.d # 0 /\ b.d # 0 /\ a.n * b.d = b.n * a.d

NoArt  == [id |-> 0, from |-> BaseMeta, on |-> 0]
NoFile == [path |-> "", open |-> FALSE, by |-> NoThread]

\* Parameters<T>(meta, progressbar): a copy of meta and empty arrays
NewParams(m) ==
  [meta |-> m, pot |-> NoArt, Scompact |-> NoArt, output |-> Empty,
   DPC_CoM |-> Empty, outputFile |-> NoFile, fpFlag |-> 0]

\* ------------------------------------------------------------------- state
VARIABLES
  meta,             \* *parent->getMetadata(): the caller's metadata
  edits,            \* number of edits the caller has made
  pars,             \* parent->pars
  potential,        \* parent->potential, as handed to potentialReceived
  output,           \* parent->output, as handed to outputReceived
  flags,            \* potentialReady, ScompactReady, outputReady, probeSetupReady
  overwriteCheck,   \* the flag behind overwriteFile() / flipOverwrite()
  fs,               \* the files at the output paths
  calculationLock,  \* holder of parent->calculationLock
  dataLock,         \* holder of parent->dataLock
  th,               \* the threads: position, this->meta, locals of run()
  calls,            \* kernel invocations per stage, so far
  hist,             \* what each run has done, and what it was asked
  env,              \* the environment: how runs are started, what kernels return
  io                \* the output store as the fileIO functions see it

vars == <<meta, edits, pars, potential, output, flags, overwriteCheck, fs,
          calculationLock, dataLock, th, calls, hist, env, io>>

\* the state of the main window and its threads
guiVars == <<meta, edits, pars, potential, output, flags, overwriteCheck, fs,
             calculationLock, dataLock, th, calls, hist, env>>

NoFlags ==
  [potentialReady |-> FALSE, ScompactReady |-> FALSE,
   outputReady |-> FALSE, probeSetupReady |-> FALSE]

Absent   == [exists |-> FALSE, by |-> NoThread, writes |-> 0]
UserFile == [exists |-> TRUE, by |-> NoThread, writes |-> 0]

NewThread ==
  [kind |-> "none", pc |-> "unborn", meta |-> BaseMeta,
   params |-> NewParams(BaseMeta), inner |-> NewParams(BaseMeta),
   fp_num |-> 0, net_output |-> Empty, DPC_CoM_output |-> Empty]

\* what a run has done: the locks it took, its kernel calls, the shared state
\* it wrote, the shared state it accessed in its own code without holding
\* dataLock (bare), what its pre-flight found and was answered, this->meta as run()
\* found it, and the tensors its output kernels returned, summed up
NewHist ==
  [locks |-> {}, kernels |-> 0, wrote |-> {}, found |-> "none",
   answer |-> "none", reused |-> FALSE, base |-> BaseMeta,
   clobbered |-> FALSE, overlapped |-> FALSE,
   nPass |-> 0, sumOut |-> 0, nDpc |-> 0, sumDpc |-> 0, sumAbsDpc |-> 0,
   stored |-> Empty, storedDpc |-> Empty, dpcOn |-> FALSE, handed |-> Empty,
   threw |-> FALSE, bare |-> {}]

Abs(x) == IF x < 0 THEN 0 - x ELSE x

\* the history after an output kernel has returned outcome o to Parameters q
Returned(h, q, o) ==
  LET d == q.meta.saveDPC_CoM IN
    [h EXCEPT !.kernels = @ + 1,
              !.wrote = @ \cup {"fs"},
              !.nPass = @ + 1,
              !.sumOut = @ + o,
              !.nDpc = IF d THEN @ + 1 ELSE @,
              !.sumDpc = IF d THEN @ + DpcOf(o) ELSE @,
              !.sumAbsDpc = IF d THEN @ + Abs(DpcOf(o)) ELSE @]

\* the positions of run() at which a stage kernel is executing
KernelPCs == {"pt_kernel", "pr_kpot", "pr_kS", "fc_kpot", "fc_kS", "fc_kout",
              "fl_kpot", "fl_kS", "fl_kout"}

\* no fileIO call is in progress
NoIO == [op |-> "none"]

\* the main window after construction, no thread constructed yet
InitWindow ==
  /\ edits = 0
  /\ pars = NewParams(BaseMeta)
  /\ potential = NoArt
  /\ output = Empty
  /\ flags = NoFlags
  /\ overwriteCheck = FALSE
  /\ fs = [p \in Paths |-> IF p = "a" THEN Absent ELSE UserFile]
  /\ calculationLock = NoThread
  /\ dataLock = NoThread
  /\ th = [t \in Threads |-> NewThread]
  /\ calls = [pot |-> 0, S |-> 0, out |-> 0]
  /\ hist = [t \in Threads |-> NewHist]

InitCache ==
  /\ InitWindow
  /\ meta \in InitMetas
  /\ io = NoIO

\* runs are started at any time, also while another run is in progress; the
\* caller edits its metadata while no run is in progress; every output kernel
\* returns the same tensors and rand() the same seed
Init ==
  /\ InitCache
  /\ env = [concurrent |-> TRUE, editAnyTime |-> FALSE,
            out |-> {1}, seeds |-> {0}, throws |-> {"pt_kernel"}, maxEdits |-> MaxEdits]

\* runs are started one at a time; the caller edits its metadata at any time;
\* rand() returns any seed
InitSeq ==
  /\ InitCache
  /\ env = [concurrent |-> FALSE, editAnyTime |-> TRUE,
            out |-> {1}, seeds |-> Seeds, throws |-> {"pt_kernel"}, maxEdits |-> MaxEdits]

\* runs are started one at a time; the output kernels return any tensors
InitAccum ==
  /\ InitCache
  /\ env = [concurrent |-> FALSE, editAnyTime |-> FALSE,
            out |-> Outcomes, seeds |-> {0}, throws |-> {"pt_kernel"}, maxEdits |-> MaxEdits]

\* runs are started at any time; every stage kernel can fail; the caller
\* makes at most one edit
InitThrow ==
  /\ InitCache
  /\ env = [concurrent |-> TRUE, editAnyTime |-> FALSE,
            out |-> {1}, seeds |-> {0}, throws |-> KernelPCs, maxEdits |-> 1]

\* ------------------------------------------------- main window, collaborators
\* PRISMMainWindow::potentialIsReady() / SMatrixIsReady()
potentialIsReady == flags.potentialReady
SMatrixIsReady   == flags.ScompactReady

\* PRISMMainWindow::resetCalculation(): all readiness flags are reset
resetCalculation == NoFlags

\* PRISMMainWindow::overwriteFile()
overwriteFile == overwriteCheck

\* Prismatic::testFilenameOutput: 0 inaccessible, 1 usable and absent, 2 exists
testFilenameOutput(p) ==
  IF p \notin Paths THEN 0 ELSE IF fs[p].exists THEN 2 ELSE 1

\* the stage kernels: the artifact records the metadata it was computed from
\* and, for the S-matrix, the potential it was computed on
PRISM01_calcPotential(p, id) ==
  [p EXCEPT !.pot = [id |-> id, from |-> p.meta, on |-> 0]]
PRISM02_calcSMatrix(p, id) ==
  [p EXCEPT !.Scompact = [id |-> id, from |-> p.meta, on |-> p.pot.id]]
calcOutput(p, o) ==
  [p EXCEPT !.output = Val(o),
            !.DPC_CoM = IF p.meta.saveDPC_CoM THEN Val(DpcOf(o)) ELSE @]

\* a write through an H5File handle reaches the file the handle was opened on
Reaches(h) ==
  /\ h.open
  /\ h.path \in Paths
  /\ fs[h.path].exists
  /\ fs[h.path].by = h.by
StoreWrite(f, h) ==
  IF Reaches(h) THEN [f EXCEPT ![h.path].writes = @ + 1] ELSE f

\* ------------------------------------------------------------------ helpers
\* run() returns: its locals are gone, the thread object keeps kind and meta
Returns(r) == [NewThread EXCEPT !.kind = r.kind, !.meta = r.meta, !.pc = "done"]

Running(t) == th[t].pc \notin {"unborn", "ready", "done"}

InKernel(t) == th[t].pc \in KernelPCs

\* variant: the calculation lock is taken with lock() and is not released by
\* the unwinding
Kernel_throws_keepsLock(t) ==
  /\ InKernel(t)
  /\ th[t].pc \in env.throws
  /\ th' = [th EXCEPT ![t] = Returns(@)]
  /\ hist' = [hist EXCEPT ![t].threw = TRUE]
  /\ UNCHANGED <<meta, edits, pars, potential, output, flags, overwriteCheck,
                 fs, calculationLock, dataLock, calls>>
  /\ UNCHANGED <<env, io>>

\* a stage kernel throws: the exception leaves run(), which has no handler;
\* the QMutexLocker objects and the other locals of run() are destroyed
Kernel_throws(t) ==
  /\ InKernel(t)
  /\ th[t].pc \in env.throws
  /\ calculationLock' = IF calculationLock = t THEN NoThread ELSE calculationLock
  /\ dataLock' = IF dataLock = t THEN NoThread ELSE dataLock
  /\ th' = [th EXCEPT ![t] = Returns(@)]
  /\ hist' = [hist EXCEPT ![t].threw = TRUE]
  /\ UNCHANGED <<meta, edits, pars, potential, output, flags, overwriteCheck,
                 fs, calls>>
  /\ UNCHANGED <<env, io>>

\* the caller edits one field of its metadata; the setter ends with
\* resetCalculation()
CallerEdit ==
  /\ edits < MaxEdits
  /\ edits < env.maxEdits
  /\ env.editAnyTime \/ \A t \in Threads : ~Running(t)
  /\ \E m \in EditsOf(meta) : meta' = m
  /\ edits' = edits + 1
  /\ flags' = resetCalculation
  /\ UNCHANGED <<pars, potential, output, overwriteCheck, fs,
                 calculationLock, dataLock, th, calls, hist>>
  /\ UNCHANGED <<env, io>>

\* PRISMThread::PRISMThread: this->meta = *(parent->getMetadata()) under dataLock
PRISMThread(t, k) ==
  /\ th[t].pc = "unborn"
  /\ \A u \in Threads : u < t => th[u].pc # "unborn"
  /\ dataLock = NoThread
  /\ th' = [th EXCEPT ![t] = [@ EXCEPT !.kind = k, !.pc = "ready", !.meta = meta]]
  /\ UNCHANGED <<meta, edits, pars, potential, output, flags, overwriteCheck,
                 fs, calculationLock, dataLock, calls, hist>>
  /\ UNCHANGED <<env, io>>

\* the locals run() sets up before its first shared access
FirstParams(k, m) ==
  IF k = "Potential"
    THEN [NewParams(m) EXCEPT !.meta.savePotentialSlices = FALSE]
  ELSE IF k = "Probe"
    THEN [NewParams(m) EXCEPT !.meta.save4DOutput = FALSE,
                              !.meta.savePotentialSlices = FALSE,
                              !.meta.saveDPC_CoM = FALSE]
  ELSE NewParams(m)

FirstPC(k) ==
  IF k = "Potential" THEN "pt_lock"
  ELSE IF k = "Probe" THEN "pr_lock" ELSE "fc_test0"

\* QThread::start(): run() begins
Start(t) ==
  /\ th[t].pc = "ready"
  /\ env.concurrent \/ \A u \in Threads : ~Running(u)
  /\ th' = [th EXCEPT ![t] = [@ EXCEPT
               !.pc = FirstPC(th[t].kind),
               !.params = FirstParams(th[t].kind, th[t].meta)]]
  /\ hist' = [u \in Threads |->
                IF u = t
                  THEN [hist[u] EXCEPT !.base = th[t].meta,
                          !.overlapped = \E w \in Threads : Running(w)]
                ELSE IF Running(u)
                  THEN [hist[u] EXCEPT !.overlapped = TRUE] ELSE hist[u]]
  /\ UNCHANGED <<meta, edits, pars, potential, output, flags, overwriteCheck,
                 fs, calculationLock, dataLock, calls>>
  /\ UNCHANGED <<env, io>>

\* ---------------------------------------------------- PotentialThread::run
\* variant: the potential is computed without taking the calculation lock
PotentialThread_lock_nolock(t) ==
  /\ th[t].pc = "pt_lock"
  /\ th' = [th EXCEPT ![t].pc = "pt_kernel"]
  /\ UNCHANGED <<meta, edits, pars, potential, output, flags, overwriteCheck,
                 fs, calculationLock, dataLock, calls, hist>>
  /\ UNCHANGED <<env, io>>

\* variant: the gatekeeper of the cache is taken first and the calculation
\* lock while it is held
PotentialThread_lock_dataFirst(t) ==
  /\ th[t].pc = "pt_lock"
  /\ \/ /\ dataLock = NoThread
        /\ dataLock' = t
        /\ hist' = [hist EXCEPT ![t].locks = @ \cup {"dataLock"}]
        /\ UNCHANGED <<calculationLock, th>>
     \/ /\ dataLock = t
        /\ calculationLock = NoThread
        /\ calculationLock' = t
        /\ th' = [th EXCEPT ![t].pc = "pt_kernel"]
        /\ hist' = [hist EXCEPT ![t].locks = @ \cup {"calculationLock"}]
        /\ UNCHANGED dataLock
  /\ UNCHANGED <<meta, edits, pars, potential, output, flags, overwriteCheck,
                 fs, calls>>
  /\ UNCHANGED <<env, io>>

\* QMutexLocker calculationLocker(&parent->calculationLock); configure(meta)
PotentialThread_lock(t) ==
  /\ th[t].pc = "pt_lock"
  /\ calculationLock = NoThread
  /\ calculationLock' = t
  /\ th' = [th EXCEPT ![t].pc = "pt_kernel"]
  /\ hist' = [hist EXCEPT ![t].locks = @ \cup {"calculationLock"}]
  /\ UNCHANGED <<meta, edits, pars, potential, output, flags, overwriteCheck,
                 fs, dataLock, calls>>
  /\ UNCHANGED <<env, io>>

PotentialThread_calcPotential(t) ==
  /\ th[t].pc = "pt_kernel"
  /\ th' = [th EXCEPT ![t] = [@ EXCEPT
               !.pc = "pt_recv",
               !.params = PRISM01_calcPotential(@, calls.pot + 1)]]
  /\ calls' = [calls EXCEPT !.pot = @ + 1]
  /\ hist' = [hist EXCEPT ![t].kernels = @ + 1]
  /\ UNCHANGED <<meta, edits, pars, potential, output, flags, overwriteCheck,
                 fs, calculationLock, dataLock>>
  /\ UNCHANGED <<env, io>>

\* potentialReceived(params.pot), then the calculation lock's scope ends
PotentialThread_received(t) ==
  /\ th[t].pc = "pt_recv"
  /\ potential' = th[t].params.pot
  /\ flags' = [flags EXCEPT !.potentialReady = TRUE]
  /\ calculationLock' = NoThread
  /\ th' = [th EXCEPT ![t].pc = "pt_store"]
  /\ hist' = [hist EXCEPT ![t].wrote = @ \cup {"flags"}]
  /\ UNCHANGED <<meta, edits, pars, output, overwriteCheck, fs, dataLock, calls>>
  /\ UNCHANGED <<env, io>>

\* parent->pars = params under dataLock, after the calculation lock is released
PotentialThread_store(t) ==
  /\ th[t].pc = "pt_store"
  /\ dataLock = NoThread
  /\ pars' = th[t].params
  /\ th' = [th EXCEPT ![t] = Returns(@)]
  /\ hist' = [hist EXCEPT ![t].locks = @ \cup {"dataLock"},
                          ![t].wrote = @ \cup {"pars"}]
  /\ UNCHANGED <<meta, edits, potential, output, flags, overwriteCheck, fs,
                 calculationLock, dataLock, calls>>
  /\ UNCHANGED <<env, io>>

\* -------------------------------------------------------- ProbeThread::run
\* variant: the gatekeeper of the cache is taken together with the calculation
\* lock, for the whole of run()
ProbeThread_lock_gatekeeper(t) ==
  /\ th[t].pc = "pr_lock"
  /\ calculationLock = NoThread
  /\ dataLock = NoThread
  /\ calculationLock' = t
  /\ dataLock' = t
  /\ th' = [th EXCEPT ![t].pc = "pr_check1"]
  /\ hist' = [hist EXCEPT ![t].locks = @ \cup {"calculationLock", "dataLock"}]
  /\ UNCHANGED <<meta, edits, pars, potential, output, flags, overwriteCheck,
                 fs, calls>>
  /\ UNCHANGED <<env, io>>

\* QMutexLocker calculationLocker(&parent->calculationLock)
ProbeThread_lock(t) ==
  /\ th[t].pc = "pr_lock"
  /\ calculationLock = NoThread
  /\ calculationLock' = t
  /\ th' = [th EXCEPT ![t].pc = "pr_check1"]
  /\ hist' = [hist EXCEPT ![t].locks = @ \cup {"calculationLock"}]
  /\ UNCHANGED <<meta, edits, pars, potential, output, flags, overwriteCheck,
                 fs, dataLock, calls>>
  /\ UNCHANGED <<env, io>>

\* the reuse test both ProbeThread and the full calculations make
MustRecompute(ready, p) == (~ready) \/ ~MetaEq(p.meta, meta)

\* if (!potentialIsReady() || !(params.meta == *getMetadata())) ... else ...
\* the test is evaluated with calculationLock held and dataLock not held: the
\* comparison reads the caller's metadata through the pointer
ProbeThread_checkPotential(t) ==
  /\ th[t].pc = "pr_check1"
  /\ IF MustRecompute(potentialIsReady, th[t].params)
       THEN /\ flags' = resetCalculation
            /\ th' = [th EXCEPT ![t].pc = "pr_kpot"]
            /\ hist' = [hist EXCEPT ![t].wrote = @ \cup {"flags"},
                                    ![t].bare = @ \cup {"metadata"}]
            /\ UNCHANGED dataLock
       ELSE /\ dataLock = NoThread
            /\ th' = [th EXCEPT ![t] = [@ EXCEPT !.pc = "pr_check2",
                                                 !.params = pars]]
            /\ hist' = [hist EXCEPT ![t].locks = @ \cup {"dataLock"},
                                    ![t].bare = @ \cup {"metadata"},
                                    ![t].reused = TRUE]
            /\ UNCHANGED <<flags, dataLock>>
  /\ UNCHANGED <<meta, edits, pars, potential, output, overwriteCheck, fs,
                 calculationLock, calls>>
  /\ UNCHANGED <<env, io>>

ProbeThread_calcPotential(t) ==
  /\ th[t].pc = "pr_kpot"
  /\ th' = [th EXCEPT ![t] = [@ EXCEPT
               !.pc = "pr_store1",
               !.params = PRISM01_calcPotential(@, calls.pot + 1)]]
  /\ calls' = [calls EXCEPT !.pot = @ + 1]
  /\ hist' = [hist EXCEPT ![t].kernels = @ + 1]
  /\ UNCHANGED <<meta, edits, pars, potential, output, flags, overwriteCheck,
                 fs, calculationLock, dataLock>>
  /\ UNCHANGED <<env, io>>

ProbeThread_storePotential(t) ==
  /\ th[t].pc = "pr_store1"
  /\ dataLock = NoThread
  /\ pars' = th[t].params
  /\ th' = [th EXCEPT ![t].pc = "pr_recv"]
  /\ hist' = [hist EXCEPT ![t].locks = @ \cup {"dataLock"},
                          ![t].wrote = @ \cup {"pars"}]
  /\ UNCHANGED <<meta, edits, potential, output, flags, overwriteCheck, fs,
                 calculationLock, dataLock, calls>>
  /\ UNCHANGED <<env, io>>

ProbeThread_received(t) ==
  /\ th[t].pc = "pr_recv"
  /\ potential' = th[t].params.pot
  /\ flags' = [flags EXCEPT !.potentialReady = TRUE]
  /\ th' = [th EXCEPT ![t].pc = "pr_check2"]
  /\ hist' = [hist EXCEPT ![t].wrote = @ \cup {"flags"}]
  /\ UNCHANGED <<meta, edits, pars, output, overwriteCheck, fs,
                 calculationLock, dataLock, calls>>
  /\ UNCHANGED <<env, io>>

\* if (!SMatrixIsReady() || !(params.meta == *getMetadata())) ... else ...
ProbeThread_checkSMatrix(t) ==
  /\ th[t].pc = "pr_check2"
  /\ IF MustRecompute(SMatrixIsReady, th[t].params)
       THEN /\ th' = [th EXCEPT ![t].pc = "pr_kS"]
            /\ hist' = [hist EXCEPT ![t].bare = @ \cup {"metadata"}]
       ELSE /\ dataLock = NoThread
            /\ th' = [th EXCEPT ![t] = [@ EXCEPT !.pc = "pr_probe",
                                                 !.params = pars]]
            /\ hist' = [hist EXCEPT ![t].locks = @ \cup {"dataLock"},
                                    ![t].bare = @ \cup {"metadata"}]
  /\ UNCHANGED <<meta, edits, pars, potential, output, flags, overwriteCheck,
                 fs, calculationLock, dataLock, calls>>
  /\ UNCHANGED <<env, io>>

ProbeThread_calcSMatrix(t) ==
  /\ th[t].pc = "pr_kS"
  /\ th' = [th EXCEPT ![t] = [@ EXCEPT
               !.pc = "pr_store2",
               !.params = PRISM02_calcSMatrix(@, calls.S + 1)]]
  /\ calls' = [calls EXCEPT !.S = @ + 1]
  /\ hist' = [hist EXCEPT ![t].kernels = @ + 1]
  /\ UNCHANGED <<meta, edits, pars, potential, output, flags, overwriteCheck,
                 fs, calculationLock, dataLock>>
  /\ UNCHANGED <<env, io>>

\* parent->pars = params; parent->ScompactReady = true
ProbeThread_storeSMatrix(t) ==
  /\ th[t].pc = "pr_store2"
  /\ dataLock = NoThread
  /\ pars' = th[t].params
  /\ flags' = [flags EXCEPT !.ScompactReady = TRUE]
  /\ th' = [th EXCEPT ![t].pc = "pr_probe"]
  /\ hist' = [hist EXCEPT ![t].locks = @ \cup {"dataLock"},
                          ![t].wrote = @ \cup {"pars", "flags"}]
  /\ UNCHANGED <<meta, edits, potential, output, overwriteCheck, fs,
                 calculationLock, dataLock, calls>>
  /\ UNCHANGED <<env, io>>

\* the single probes are computed on local copies; then dataLock is taken for
\* the rest of run() and probeSetupReady is set
ProbeThread_probes(t) ==
  /\ th[t].pc = "pr_probe"
  /\ dataLock = NoThread
  /\ dataLock' = t
  /\ flags' = [flags EXCEPT !.probeSetupReady = TRUE]
  /\ th' = [th EXCEPT ![t].pc = "pr_emit"]
  /\ hist' = [hist EXCEPT ![t].locks = @ \cup {"dataLock"},
                          ![t].wrote = @ \cup {"flags"}]
  /\ UNCHANGED <<meta, edits, pars, potential, output, overwriteCheck, fs,
                 calculationLock, calls>>
  /\ UNCHANGED <<env, io>>

\* the probe images are emitted; run() returns, both lockers go out of scope
ProbeThread_emit(t) ==
  /\ th[t].pc = "pr_emit"
  /\ dataLock' = NoThread
  /\ calculationLock' = NoThread
  /\ th' = [th EXCEPT ![t] = Returns(@)]
  /\ UNCHANGED <<meta, edits, pars, potential, output, flags, overwriteCheck,
                 fs, calls, hist>>
  /\ UNCHANGED <<env, io>>


\* ------------- FullPRISMCalcThread::run and FullMultisliceCalcThread::run
\* the two run() bodies differ in the kernels after the potential only.

\* if (!testFilenameOutput(filename)) return;
Full_testAccessible(t) ==
  /\ th[t].pc = "fc_test0"
  /\ IF testFilenameOutput(th[t].params.meta.filenameOutput) = 0
       THEN /\ th' = [th EXCEPT ![t] = Returns(@)]
            /\ hist' = [hist EXCEPT ![t].found = "inaccessible"]
       ELSE /\ th' = [th EXCEPT ![t].pc = "fc_test2"]
            /\ UNCHANGED hist
  /\ UNCHANGED <<meta, edits, pars, potential, output, flags, overwriteCheck,
                 fs, calculationLock, dataLock, calls>>
  /\ UNCHANGED <<env, io>>

\* if (testFilenameOutput(filename) == 2) emit overwriteWarning();
\* the caller answers the warning; accepting sets the overwrite flag
Full_testExists(t) ==
  /\ th[t].pc = "fc_test2"
  /\ IF testFilenameOutput(th[t].params.meta.filenameOutput) = 2
       THEN \E ans \in {"accept", "decline"} :
              /\ overwriteCheck' = IF ans = "accept" THEN TRUE ELSE overwriteCheck
              /\ th' = [th EXCEPT ![t].pc = "fc_ovr"]
              /\ hist' = [hist EXCEPT ![t].answer = ans, ![t].found = "exists"]
       ELSE /\ th' = [th EXCEPT ![t].pc = "fc_lock"]
            /\ hist' = [hist EXCEPT ![t].found = "usable"]
            /\ UNCHANGED overwriteCheck
  /\ UNCHANGED <<meta, edits, pars, potential, output, flags, fs,
                 calculationLock, dataLock, calls>>
  /\ UNCHANGED <<env, io>>

\* variant: the existing file is removed before the caller's answer is read
Full_overwriteFile_removeFirst(t) ==
  /\ th[t].pc = "fc_ovr"
  /\ fs' = [fs EXCEPT ![th[t].params.meta.filenameOutput] = Absent]
  /\ IF overwriteFile
       THEN /\ th' = [th EXCEPT ![t].pc = "fc_flip"]
            /\ hist' = [hist EXCEPT ![t].wrote = @ \cup {"fs"}]
       ELSE /\ th' = [th EXCEPT ![t] = Returns(@)]
            /\ hist' = [hist EXCEPT ![t].found = "declined",
                                    ![t].wrote = @ \cup {"fs"}]
  /\ UNCHANGED <<meta, edits, pars, potential, output, flags, overwriteCheck,
                 calculationLock, dataLock, calls>>
  /\ UNCHANGED <<env, io>>

\* if (parent->overwriteFile()) ... else return;
Full_overwriteFile(t) ==
  /\ th[t].pc = "fc_ovr"
  /\ IF overwriteFile
       THEN /\ th' = [th EXCEPT ![t].pc = "fc_remove"]
            /\ UNCHANGED hist
       ELSE /\ th' = [th EXCEPT ![t] = Returns(@)]
            /\ hist' = [hist EXCEPT ![t].found = "declined"]
  /\ UNCHANGED <<meta, edits, pars, potential, output, flags, overwriteCheck,
                 fs, calculationLock, dataLock, calls>>
  /\ UNCHANGED <<env, io>>

\* remove(filename); the thread then sleeps one second
Full_remove(t) ==
  /\ th[t].pc = "fc_remove"
  /\ LET p == th[t].params.meta.filenameOutput IN
       /\ fs' = [fs EXCEPT ![p] = Absent]
       /\ hist' = [hist EXCEPT ![t].wrote = @ \cup {"fs"},
                               ![t].clobbered = @ \/ fs[p].exists]
  /\ th' = [th EXCEPT ![t].pc = "fc_flip"]
  /\ UNCHANGED <<meta, edits, pars, potential, output, flags, overwriteCheck,
                 calculationLock, dataLock, calls>>
  /\ UNCHANGED <<env, io>>

\* parent->flipOverwrite()
Full_flipOverwrite(t) ==
  /\ th[t].pc = "fc_flip"
  /\ overwriteCheck' = ~overwriteCheck
  /\ th' = [th EXCEPT ![t].pc = "fc_lock"]
  /\ hist' = [hist EXCEPT ![t].wrote = @ \cup {"overwriteCheck"}]
  /\ UNCHANGED <<meta, edits, pars, potential, output, flags, fs,
                 calculationLock, dataLock, calls>>
  /\ UNCHANGED <<env, io>>

\* H5::H5File(filename, H5F_ACC_TRUNC): a new, empty file replaces what is there
Truncate(f, p, t) == [f EXCEPT ![p] = [exists |-> TRUE, by |-> t, writes |-> 0]]

\* QMutexLocker calculationLocker; configure; outputFile = H5File(.., TRUNC);
\* setupOutputFile(params); params.fpFlag = 0
Full_lock(t) ==
  /\ th[t].pc = "fc_lock"
  /\ calculationLock = NoThread
  /\ calculationLock' = t
  /\ LET p == th[t].params.meta.filenameOutput IN
       /\ fs' = Truncate(fs, p, t)
       /\ th' = [th EXCEPT ![t] = [@ EXCEPT
                    !.pc = "fc_check",
                    !.params.outputFile = [path |-> p, open |-> TRUE, by |-> t],
                    !.params.fpFlag = 0]]
       /\ hist' = [hist EXCEPT ![t].locks = @ \cup {"calculationLock"},
                               ![t].wrote = @ \cup {"fs"},
                               ![t].clobbered = @ \/ fs[p].exists]
  /\ UNCHANGED <<meta, edits, pars, potential, output, flags, overwriteCheck,
                 dataLock, calls>>
  /\ UNCHANGED <<env, io>>

\* if (!potentialIsReady() || !(params.meta == *getMetadata())) ... else ...
Full_checkPotential(t) ==
  /\ th[t].pc = "fc_check"
  /\ IF MustRecompute(potentialIsReady, th[t].params)
       THEN /\ flags' = resetCalculation
            /\ th' = [th EXCEPT ![t].pc = "fc_kpot"]
            /\ hist' = [hist EXCEPT ![t].wrote = @ \cup {"flags"},
                                    ![t].bare = @ \cup {"metadata"}]
       ELSE /\ dataLock = NoThread
            /\ th' = [th EXCEPT ![t] = [@ EXCEPT !.pc = "fc_recv",
                                                 !.params = pars]]
            /\ hist' = [hist EXCEPT ![t].locks = @ \cup {"dataLock"},
                                    ![t].bare = @ \cup {"metadata"},
                                    ![t].reused = TRUE]
            /\ UNCHANGED flags
  /\ UNCHANGED <<meta, edits, pars, potential, output, overwriteCheck, fs,
                 calculationLock, dataLock, calls>>
  /\ UNCHANGED <<env, io>>

Full_calcPotential(t) ==
  /\ th[t].pc = "fc_kpot"
  /\ th' = [th EXCEPT ![t] = [@ EXCEPT
               !.pc = "fc_store1",
               !.params = PRISM01_calcPotential(@, calls.pot + 1)]]
  /\ calls' = [calls EXCEPT !.pot = @ + 1]
  /\ hist' = [hist EXCEPT ![t].kernels = @ + 1]
  /\ UNCHANGED <<meta, edits, pars, potential, output, flags, overwriteCheck,
                 fs, calculationLock, dataLock>>
  /\ UNCHANGED <<env, io>>

Full_storePotential(t) ==
  /\ th[t].pc = "fc_store1"
  /\ dataLock = NoThread
  /\ pars' = th[t].params
  /\ th' = [th EXCEPT ![t].pc = "fc_recv"]
  /\ hist' = [hist EXCEPT ![t].locks = @ \cup {"dataLock"},
                          ![t].wrote = @ \cup {"pars"}]
  /\ UNCHANGED <<meta, edits, potential, output, flags, overwriteCheck, fs,
                 calculationLock, dataLock, calls>>
  /\ UNCHANGED <<env, io>>

AfterPotential(k, loop) ==
  IF k = "FullPRISM" THEN (IF loop THEN "fl_kS" ELSE "fc_kS")
  ELSE (IF loop THEN "fl_kout" ELSE "fc_kout")

\* parent->potentialReceived(params.pot); emit potentialCalculated()
Full_received(t) ==
  /\ th[t].pc = "fc_recv"
  /\ potential' = th[t].params.pot
  /\ flags' = [flags EXCEPT !.potentialReady = TRUE]
  /\ th' = [th EXCEPT ![t].pc = AfterPotential(th[t].kind, FALSE)]
  /\ hist' = [hist EXCEPT ![t].wrote = @ \cup {"flags"}]
  /\ UNCHANGED <<meta, edits, pars, output, overwriteCheck, fs,
                 calculationLock, dataLock, calls>>
  /\ UNCHANGED <<env, io>>

Full_calcSMatrix(t) ==
  /\ th[t].pc = "fc_kS"
  /\ th' = [th EXCEPT ![t] = [@ EXCEPT
               !.pc = "fc_kout",
               !.params = PRISM02_calcSMatrix(@, calls.S + 1)]]
  /\ calls' = [calls EXCEPT !.S = @ + 1]
  /\ hist' = [hist EXCEPT ![t].kernels = @ + 1]
  /\ UNCHANGED <<meta, edits, pars, potential, output, flags, overwriteCheck,
                 fs, calculationLock, dataLock>>
  /\ UNCHANGED <<env, io>>

\* the accumulators of the frozen phonon passes, as set up after pass 0
FirstSum(p) ==
  [net |-> p.output,
   dpc |-> IF p.meta.saveDPC_CoM THEN p.DPC_CoM ELSE Empty]

\* PRISM03_calcOutput / Multislice_calcOutput of pass 0; outputFile.close();
\* if (numFP > 1) net_output(params.output), DPC_CoM_output = params.DPC_CoM
Full_calcOutput(t) ==
  /\ th[t].pc = "fc_kout"
  /\ \E o \in env.out :
       LET q == calcOutput(th[t].params, o) IN
         /\ th' = [th EXCEPT ![t] = [@ EXCEPT
                      !.pc = IF q.meta.numFP > 1 THEN "fc_loop" ELSE "fc_store2",
                      !.params = [q EXCEPT !.outputFile.open = FALSE],
                      !.fp_num = 1,
                      !.net_output =
                         IF q.meta.numFP > 1 THEN FirstSum(q).net ELSE @,
                      !.DPC_CoM_output =
                         IF q.meta.numFP > 1 THEN FirstSum(q).dpc ELSE @]]
         /\ hist' = [hist EXCEPT ![t] = Returned(@, q, o)]
  /\ fs' = StoreWrite(fs, th[t].params.outputFile)
  /\ calls' = [calls EXCEPT !.out = @ + 1]
  /\ UNCHANGED <<meta, edits, pars, potential, output, flags, overwriteCheck,
                 calculationLock, dataLock>>
  /\ UNCHANGED <<env, io>>


\* H5::H5File(filename, H5F_ACC_RDWR): opens the file that is at the path
OpenRDWR(p) ==
  IF p \in Paths /\ fs[p].exists
    THEN [path |-> p, open |-> TRUE, by |-> fs[p].by]
    ELSE [path |-> p, open |-> FALSE, by |-> NoThread]

\* for (fp_num = 1; fp_num < params.meta.numFP; ++fp_num) {
\*   params.meta.randomSeed = rand() % 100000; ++meta.fpNum;
\*   Parameters params(meta, progressbar);  -- the pass's own Parameters
\*   params.outputFile = H5File(.., RDWR); params.fpFlag = fp_num;
Full_nextPass(t) ==
  /\ th[t].pc = "fc_loop"
  /\ th[t].fp_num < th[t].params.meta.numFP
  /\ \E seed \in env.seeds :
       LET m == [th[t].meta EXCEPT !.fpNum = @ + 1] IN
         /\ th' = [th EXCEPT ![t] = [@ EXCEPT
                      !.pc = "fl_kpot",
                      !.params.meta.randomSeed = seed,
                      !.meta = m,
                      !.inner = [NewParams(m) EXCEPT
                                   !.outputFile = OpenRDWR(m.filenameOutput),
                                   !.fpFlag = th[t].fp_num]]]
  /\ UNCHANGED <<meta, edits, pars, potential, output, flags, overwriteCheck,
                 fs, calculationLock, dataLock, calls, hist>>
  /\ UNCHANGED <<env, io>>

Full_pass_calcPotential(t) ==
  /\ th[t].pc = "fl_kpot"
  /\ th' = [th EXCEPT ![t] = [@ EXCEPT
               !.pc = "fl_recv",
               !.inner = PRISM01_calcPotential(@, calls.pot + 1)]]
  /\ calls' = [calls EXCEPT !.pot = @ + 1]
  /\ hist' = [hist EXCEPT ![t].kernels = @ + 1]
  /\ UNCHANGED <<meta, edits, pars, potential, output, flags, overwriteCheck,
                 fs, calculationLock, dataLock>>
  /\ UNCHANGED <<env, io>>

Full_pass_received(t) ==
  /\ th[t].pc = "fl_recv"
  /\ potential' = th[t].inner.pot
  /\ flags' = [flags EXCEPT !.potentialReady = TRUE]
  /\ th' = [th EXCEPT ![t].pc = AfterPotential(th[t].kind, TRUE)]
  /\ hist' = [hist EXCEPT ![t].wrote = @ \cup {"flags"}]
  /\ UNCHANGED <<meta, edits, pars, output, overwriteCheck, fs,
                 calculationLock, dataLock, calls>>
  /\ UNCHANGED <<env, io>>

Full_pass_calcSMatrix(t) ==
  /\ th[t].pc = "fl_kS"
  /\ th' = [th EXCEPT ![t] = [@ EXCEPT
               !.pc = "fl_kout",
               !.inner = PRISM02_calcSMatrix(@, calls.S + 1)]]
  /\ calls' = [calls EXCEPT !.S = @ + 1]
  /\ hist' = [hist EXCEPT ![t].kernels = @ + 1]
  /\ UNCHANGED <<meta, edits, pars, potential, output, flags, overwriteCheck,
                 fs, calculationLock, dataLock>>
  /\ UNCHANGED <<env, io>>

\* variant: the magnitude of the pass's centre of mass is accumulated
Accumulate_magnitude(sum, q, m) ==
  [net |-> RAdd(sum.net, q.output),
   dpc |-> IF m.saveDPC_CoM
             THEN RAdd(sum.dpc, [q.DPC_CoM EXCEPT !.n = Abs(@)]) ELSE sum.dpc]

\* net_output += params.output; if (meta.saveDPC_CoM) DPC_CoM_output += params.DPC_CoM
Accumulate(sum, q, m) ==
  [net |-> RAdd(sum.net, q.output),
   dpc |-> IF m.saveDPC_CoM THEN RAdd(sum.dpc, q.DPC_CoM) ELSE sum.dpc]

\* the pass's output kernel, the accumulation, params.outputFile.close()
Full_pass_calcOutput(t) ==
  /\ th[t].pc = "fl_kout"
  /\ \E o \in env.out :
       LET q   == calcOutput(th[t].inner, o)
           acc == Accumulate([net |-> th[t].net_output,
                              dpc |-> th[t].DPC_CoM_output], q, th[t].meta)
       IN
         /\ th' = [th EXCEPT ![t] = [@ EXCEPT
                      !.pc = "fc_loop",
                      !.inner = NewParams(BaseMeta),
                      !.net_output = acc.net,
                      !.DPC_CoM_output = acc.dpc,
                      !.fp_num = @ + 1]]
         /\ hist' = [hist EXCEPT ![t] = Returned(@, q, o)]
  /\ fs' = StoreWrite(fs, th[t].inner.outputFile)
  /\ calls' = [calls EXCEPT !.out = @ + 1]
  /\ UNCHANGED <<meta, edits, pars, potential, output, flags, overwriteCheck,
                 calculationLock, dataLock>>
  /\ UNCHANGED <<env, io>>

\* variant: the sum is not divided
Average_undivided(x, n) == x

\* for (auto &i : net_output) i /= params.meta.numFP;
Average(x, n) == RDiv(x, n)

\* after the loop: divide to take the average, put it into params
Full_average(t) ==
  /\ th[t].pc = "fc_loop"
  /\ ~(th[t].fp_num < th[t].params.meta.numFP)
  /\ LET n == th[t].params.meta.numFP
         d == th[t].params.meta.saveDPC_CoM
     IN th' = [th EXCEPT ![t] = [@ EXCEPT
                 !.pc = "fc_store2",
                 !.net_output = Empty,
                 !.params.output = Average(th[t].net_output, n),
                 !.DPC_CoM_output = Empty,
                 !.params.DPC_CoM =
                    IF d THEN Average(th[t].DPC_CoM_output, n) ELSE @]]
  /\ UNCHANGED <<meta, edits, pars, potential, output, flags, overwriteCheck,
                 fs, calculationLock, dataLock, calls, hist>>
  /\ UNCHANGED <<env, io>>

\* variant: the calculation lock is released once the result is in the cache
Full_store_unlocks(t) ==
  /\ th[t].pc = "fc_store2"
  /\ dataLock = NoThread
  /\ pars' = th[t].params
  /\ calculationLock' = NoThread
  /\ th' = [th EXCEPT ![t].pc = "fc_save"]
  /\ hist' = [hist EXCEPT ![t].locks = @ \cup {"dataLock", "outputLock"},
                          ![t].wrote = @ \cup {"pars"},
                          ![t].stored = th[t].params.output,
                          ![t].storedDpc = th[t].params.DPC_CoM,
                          ![t].dpcOn = th[t].params.meta.saveDPC_CoM]
  /\ UNCHANGED <<meta, edits, potential, output, flags, overwriteCheck, fs,
                 dataLock, calls>>
  /\ UNCHANGED <<env, io>>

\* parent->pars = params under dataLock; detectorAngles and pixelSize under
\* outputLock
Full_store(t) ==
  /\ th[t].pc = "fc_store2"
  /\ dataLock = NoThread
  /\ pars' = th[t].params
  /\ th' = [th EXCEPT ![t].pc = "fc_save"]
  /\ hist' = [hist EXCEPT ![t].locks = @ \cup {"dataLock", "outputLock"},
                          ![t].wrote = @ \cup {"pars"},
                          ![t].stored = th[t].params.output,
                          ![t].storedDpc = th[t].params.DPC_CoM,
                          ![t].dpcOn = th[t].params.meta.saveDPC_CoM]
  /\ UNCHANGED <<meta, edits, potential, output, flags, overwriteCheck, fs,
                 calculationLock, dataLock, calls>>
  /\ UNCHANGED <<env, io>>

\* saveSTEM(params); writeMetadata(params); parent->outputReceived(params.output);
\* calculationLocker.unlock()
Full_save(t) ==
  /\ th[t].pc = "fc_save"
  /\ fs' = StoreWrite(fs, th[t].params.outputFile)
  /\ output' = th[t].params.output
  /\ flags' = [flags EXCEPT !.outputReady = TRUE]
  /\ calculationLock' = NoThread
  /\ th' = [th EXCEPT ![t] = Returns(@)]
  /\ hist' = [hist EXCEPT ![t].wrote = @ \cup {"flags", "fs"},
                          ![t].handed = th[t].params.output]
  /\ UNCHANGED <<meta, edits, pars, potential, overwriteCheck, dataLock, calls>>
  /\ UNCHANGED <<env, io>>

\* ------------------------------------------------------------ specification
Next ==
  \/ CallerEdit
  \/ \E t \in Threads, k \in Kinds : PRISMThread(t, k)
  \/ \E t \in Threads : Start(t)
  \/ \E t \in Threads : Kernel_throws(t)
  \/ \E t \in Threads : PotentialThread_lock(t)
  \/ \E t \in Threads : PotentialThread_calcPotential(t)
  \/ \E t \in Threads : PotentialThread_received(t)
  \/ \E t \in Threads : PotentialThread_store(t)
  \/ \E t \in Threads : ProbeThread_lock(t)
  \/ \E t \in Threads : ProbeThread_checkPotential(t)
  \/ \E t \in Threads : ProbeThread_calcPotential(t)
  \/ \E t \in Threads : ProbeThread_storePotential(t)
  \/ \E t \in Threads : ProbeThread_received(t)
  \/ \E t \in Threads : ProbeThread_checkSMatrix(t)
  \/ \E t \in Threads : ProbeThread_calcSMatrix(t)
  \/ \E t \in Threads : ProbeThread_storeSMatrix(t)
  \/ \E t \in Threads : ProbeThread_probes(t)
  \/ \E t \in Threads : ProbeThread_emit(t)
  \/ \E t \in Threads : Full_testAccessible(t)
  \/ \E t \in Threads : Full_testExists(t)
  \/ \E t \in Threads : Full_overwriteFile(t)
  \/ \E t \in Threads : Full_remove(t)
  \/ \E t \in Threads : Full_flipOverwrite(t)
  \/ \E t \in Threads : Full_lock(t)
  \/ \E t \in Threads : Full_checkPotential(t)
  \/ \E t \in Threads : Full_calcPotential(t)
  \/ \E t \in Threads : Full_storePotential(t)
  \/ \E t \in Threads : Full_received(t)
  \/ \E t \in Threads : Full_calcSMatrix(t)
  \/ \E t \in Threads : Full_calcOutput(t)
  \/ \E t \in Threads : Full_nextPass(t)
  \/ \E t \in Threads : Full_pass_calcPotential(t)
  \/ \E t \in Threads : Full_pass_received(t)
  \/ \E t \in Threads : Full_pass_calcSMatrix(t)
  \/ \E t \in Threads : Full_pass_calcOutput(t)
  \/ \E t \in Threads : Full_average(t)
  \/ \E t \in Threads : Full_store(t)
  \/ \E t \in Threads : Full_save(t)

Spec == Init /\ [][Next]_vars

SpecSeq == InitSeq /\ [][Next]_vars

SpecAccum == InitAccum /\ [][Next]_vars

SpecThrow == InitThrow /\ [][Next]_vars

\* one step of run() of thread t, every stage kernel returning
Step(t) ==
  \/ PotentialThread_lock(t)
  \/ PotentialThread_calcPotential(t)
  \/ PotentialThread_received(t)
  \/ PotentialThread_store(t)
  \/ ProbeThread_lock(t)
  \/ ProbeThread_checkPotential(t)
  \/ ProbeThread_calcPotential(t)
  \/ ProbeThread_storePotential(t)
  \/ ProbeThread_received(t)
  \/ ProbeThread_checkSMatrix(t)
  \/ ProbeThread_calcSMatrix(t)
  \/ ProbeThread_storeSMatrix(t)
  \/ ProbeThread_probes(t)
  \/ ProbeThread_emit(t)
  \/ Full_testAccessible(t)
  \/ Full_testExists(t)
  \/ Full_overwriteFile(t)
  \/ Full_remove(t)
  \/ Full_flipOverwrite(t)
  \/ Full_lock(t)
  \/ Full_checkPotential(t)
  \/ Full_calcPotential(t)
  \/ Full_storePotential(t)
  \/ Full_received(t)
  \/ Full_calcSMatrix(t)
  \/ Full_calcOutput(t)
  \/ Full_nextPass(t)
  \/ Full_pass_calcPotential(t)
  \/ Full_pass_received(t)
  \/ Full_pass_calcSMatrix(t)
  \/ Full_pass_calcOutput(t)
  \/ Full_average(t)
  \/ Full_store(t)
  \/ Full_save(t)

\* threads are constructed and started in any order and at any time; the
\* caller makes no edit and no stage kernel fails
InitLive ==
  /\ InitCache
  /\ env = [concurrent |-> TRUE, editAnyTime |-> FALSE,
            out |-> {1}, seeds |-> {0}, throws |-> {}, maxEdits |-> 0]

NextLive ==
  \/ \E t \in Threads, k \in Kinds : PRISMThread(t, k)
  \/ \E t \in Threads : Start(t)
  \/ \E t \in Threads : Step(t)

\* a started thread is scheduled: a step of run() that stays possible is
\* taken, a lock that is free is handed to a thread that waits for it
SpecLive ==
  /\ InitLive
  /\ [][NextLive]_vars
  /\ \A t \in Threads : WF_vars(Step(t))

TypeOK ==
  /\ calculationLock \in Threads \cup {NoThread}
  /\ dataLock \in Threads \cup {NoThread}
  /\ overwriteCheck \in BOOLEAN
  /\ \A t \in Threads : th[t].kind \in Kinds \cup {"none"}

\* ----------------------------------------------- fileIO.cpp: writeDatacube4D
\* The main window is idle while the fileIO functions are exercised.
IdleWindow ==
  /\ InitWindow
  /\ meta = BaseMeta
  /\ env = [concurrent |-> FALSE, editAnyTime |-> FALSE, out |-> {1},
            seeds |-> {0}, throws |-> {}, maxEdits |-> 0]

\* The "datacube" dataset has extents DsDims; arrays are row-major and are
\* functions from linear indices, counted from 0.
Writers == {1, 2}
DsDims  == <<2, 1, 2, 2>>
Size(d) == d[1] * d[2] * d[3] * d[4]
Lin(c, d) == ((c[1] * d[2] + c[2]) * d[3] + c[3]) * d[4] + c[4]
Unravel(k, d) ==
  <<k \div (d[2] * d[3] * d[4]), (k \div (d[3] * d[4])) % d[2],
    (k \div d[4]) % d[3], k % d[4]>>

\* the region shapes and offsets that lie inside the dataset
Regions ==
  {r \in [mdims : (1..2) \X {1} \X (1..2) \X (1..2),
          offset : (0..1) \X {0} \X (0..1) \X (0..1)] :
     /\ r.mdims[3] * r.mdims[4] >= 2
     /\ \A i \in 1..4 : r.offset[i] + r.mdims[i] <= DsDims[i]}

\* what malloc'ed memory that was never assigned can hold
Junk == {Val(0), Val(5)}

\* the dataset before the first write
Disk0 == [k \in 0..(Size(DsDims) - 1) |-> Val(k)]

\* fspace.selectHyperslab(H5S_SELECT_SET, mdims, offset): the element of the
\* dataset that element k of the memory buffer is transferred to or from
FilePos(r, k) ==
  LET c == Unravel(k, r.mdims)
  IN Lin(<<c[1] + r.offset[1], c[2] + r.offset[2],
           c[3] + r.offset[3], c[4] + r.offset[4]>>, DsDims)

\* the caller's buffer: element k holds v0 + k
Buffer(r, v0) == [k \in 0..(Size(r.mdims) - 1) |-> Val(v0 + k)]

IdleWriter ==
  [pc |-> "idle", r |-> [mdims |-> <<1, 1, 1, 1>>, offset |-> <<0, 0, 0, 0>>],
   numFP |-> 1, v0 |-> 0, buffer |-> <<>>, finalBuffer |-> <<>>,
   before |-> <<>>]

InitWrite4D ==
  /\ IdleWindow
  /\ io = [op |-> "writeDatacube4D", disk |-> Disk0, write4D_lock |-> 0,
           w |-> [x \in Writers |-> IdleWriter]]

\* a caller enters writeDatacube4D(pars, buffer, mdims, offset, numFP, name)
W4D_call(x) ==
  /\ io.w[x].pc = "idle"
  /\ \A y \in Writers : y < x => io.w[y].pc # "idle"
  /\ \E r \in Regions, n \in 1..MaxN, v0 \in 1..MaxVal :
       io' = [io EXCEPT !.w[x] = [@ EXCEPT !.pc = "lock", !.r = r, !.numFP = n,
                                           !.v0 = v0, !.buffer = Buffer(r, v0)]]
  /\ UNCHANGED guiVars

\* std::unique_lock<std::mutex> writeGatekeeper(write4D_lock); the dataset is
\* opened and the hyperslab selected
W4D_lock(x) ==
  /\ io.w[x].pc = "lock"
  /\ io.write4D_lock = 0
  /\ io' = [io EXCEPT !.write4D_lock = x,
                      !.w[x].pc = "restride",
                      !.w[x].before = io.disk]
  /\ UNCHANGED guiVars

\* finalBuffer after the restride loop over i < mdims[2], j < mdims[3]:
\* finalBuffer[i * mdims[3] + j] = buffer[j * mdims[2] + i]; the elements the
\* loop does not reach keep what malloc returned
Restride(buf, d, g) ==
  [k \in DOMAIN buf |->
     IF k < d[3] * d[4]
       THEN buf[(k % d[4]) * d[3] + (k \div d[4])]
       ELSE g]

\* buffer[i] /= numFP for every element; finalBuffer is allocated and filled
W4D_restride(x) ==
  /\ io.w[x].pc = "restride"
  /\ LET wx  == io.w[x]
         div == [k \in DOMAIN wx.buffer |-> RDiv(wx.buffer[k], wx.numFP)]
     IN \E g \in Junk :
          io' = [io EXCEPT !.w[x] = [@ EXCEPT
                   !.pc = "read",
                   !.buffer = div,
                   !.finalBuffer = Restride(div, wx.r.mdims, g)]]
  /\ UNCHANGED guiVars

\* dataset.read(readBuffer, ..., mspace, fspace); finalBuffer[i] += readBuffer[i]
W4D_readAdd(x) ==
  /\ io.w[x].pc = "read"
  /\ LET wx == io.w[x]
     IN io' = [io EXCEPT !.w[x] = [@ EXCEPT
                 !.pc = "write",
                 !.finalBuffer =
                    [k \in DOMAIN wx.finalBuffer |->
                       RAdd(wx.finalBuffer[k], io.disk[FilePos(wx.r, k)])]]]
  /\ UNCHANGED guiVars

\* dataset.write(finalBuffer, ..., mspace, fspace); flush
W4D_write(x) ==
  /\ io.w[x].pc = "write"
  /\ LET wx == io.w[x]
         at(p) == CHOOSE k \in DOMAIN wx.finalBuffer : FilePos(wx.r, k) = p
     IN io' = [io EXCEPT
                 !.w[x].pc = "written",
                 !.disk = [p \in DOMAIN io.disk |->
                             IF \E k \in DOMAIN wx.finalBuffer :
                                    FilePos(wx.r, k) = p
                               THEN wx.finalBuffer[at(p)]
                               ELSE io.disk[p]]]
  /\ UNCHANGED guiVars

\* writeGatekeeper.unlock()
W4D_unlock(x) ==
  /\ io.w[x].pc = "written"
  /\ io' = [io EXCEPT !.write4D_lock = 0,
                      !.w[x] = [@ EXCEPT !.pc = "done", !.buffer = <<>>,
                                         !.finalBuffer = <<>>, !.before = <<>>]]
  /\ UNCHANGED guiVars

NextWrite4D ==
  \/ \E x \in Writers : W4D_call(x)
  \/ \E x \in Writers : W4D_lock(x)
  \/ \E x \in Writers : W4D_restride(x)
  \/ \E x \in Writers : W4D_readAdd(x)
  \/ \E x \in Writers : W4D_write(x)
  \/ \E x \in Writers : W4D_unlock(x)

SpecWrite4D == InitWrite4D /\ [][NextWrite4D]_vars

\* ------------------------------------------------- fileIO.cpp: setup4DOutput
\* frequency axes: up to MaxLen samples, in the order the arrays hold them
Samples == {0, 1}
Axes    == UNION {[1..n -> Samples] : n \in 1..MaxLen}
Cutoffs == {1, 2}
Layers  == 1..2

InitSetup4D ==
  /\ IdleWindow
  /\ \E crop \in BOOLEAN, alg \in {"PRISM", "Multislice"},
        qx \in Axes, qy \in Axes, qMax \in Cutoffs, numLayers \in Layers :
       io = [op |-> "setup4DOutput", pc |-> "extents",
             crop4DOutput |-> crop, algorithm |-> alg, qx |-> qx, qy |-> qy,
             qMax |-> qMax, numLayers |-> numLayers,
             qxInd_max |-> 0, qyInd_max |-> 0, offset_qx |-> 0, offset_qy |-> 0,
             n |-> 0, cubes |-> <<>>]

\* variant: the scan counts the samples up to and including the cutoff
RECURSIVE ScanBelow_inclusive(_, _, _)
ScanBelow_inclusive(q, i, qMax) ==
  IF i > Len(q) THEN 0
  ELSE IF q[i] <= qMax THEN 1 + ScanBelow_inclusive(q, i + 1, qMax)
  ELSE 0

\* for (i = 0; i < q.get_dimi(); i++) if (q.at(i) < qMax) ind++; else break;
\* the count reached from sample i on
RECURSIVE ScanBelow(_, _, _)
ScanBelow(q, i, qMax) ==
  IF i > Len(q) THEN 0
  ELSE IF q[i] < qMax THEN 1 + ScanBelow(q, i + 1, qMax)
  ELSE 0

\* variant: the probe-array mode keeps one quarter of the probe array's extent
Extents_quarter(s) ==
  IF s.crop4DOutput
    THEN [qxInd_max |-> 2 * ScanBelow(s.qx, 1, s.qMax),
          qyInd_max |-> 2 * ScanBelow(s.qy, 1, s.qMax),
          offset_qx |-> 0, offset_qy |-> 0]
  ELSE IF s.algorithm = "Multislice"
    THEN [qxInd_max |-> Len(s.qx) \div 4, qyInd_max |-> Len(s.qy) \div 4,
          offset_qx |-> Len(s.qx) \div 4, offset_qy |-> Len(s.qy) \div 4]
  ELSE [qxInd_max |-> Len(s.qx), qyInd_max |-> Len(s.qy),
        offset_qx |-> 0, offset_qy |-> 0]

\* qxInd_max, qyInd_max and the offsets, as the three branches compute them;
\* psiProbeInit has the extents of the two axes
Extents(s) ==
  IF s.crop4DOutput
    THEN [qxInd_max |-> 2 * ScanBelow(s.qx, 1, s.qMax),
          qyInd_max |-> 2 * ScanBelow(s.qy, 1, s.qMax),
          offset_qx |-> 0, offset_qy |-> 0]
  ELSE IF s.algorithm = "Multislice"
    THEN [qxInd_max |-> Len(s.qx) \div 2, qyInd_max |-> Len(s.qy) \div 2,
          offset_qx |-> Len(s.qx) \div 4, offset_qy |-> Len(s.qy) \div 4]
  ELSE [qxInd_max |-> Len(s.qx), qyInd_max |-> Len(s.qy),
        offset_qx |-> 0, offset_qy |-> 0]

S4D_extents ==
  /\ io.op = "setup4DOutput"
  /\ io.pc = "extents"
  /\ LET e == Extents(io)
     IN io' = [io EXCEPT !.pc = "declare",
                         !.qxInd_max = e.qxInd_max, !.qyInd_max = e.qyInd_max,
                         !.offset_qx = e.offset_qx, !.offset_qy = e.offset_qy]
  /\ UNCHANGED guiVars

\* Prismatic::fftshift of a 1-D array: the halves are exchanged
fftshift(q) ==
  [i \in 1..Len(q) |-> q[((i - 1 + Len(q) - Len(q) \div 2) % Len(q)) + 1]]

\* dimN.write(&q[offset], ..) copies len elements from offset on; the elements
\* read past the end of the array are whatever memory holds there
ReadFrom(q, offset, len) ==
  [i \in 1..len |-> IF offset + i <= Len(q) THEN q[offset + i] ELSE "junk"]

\* one iteration of the loop over the layers: group CBED_array_depth<n> with
\* its datacube and its axis descriptors dim3, dim4
S4D_declare ==
  /\ io.op = "setup4DOutput"
  /\ io.pc = "declare"
  /\ io.n < io.numLayers
  /\ LET qx == IF io.algorithm = "Multislice" THEN fftshift(io.qx) ELSE io.qx
         qy == IF io.algorithm = "Multislice" THEN fftshift(io.qy) ELSE io.qy
         cube == [data_dims |-> <<io.qxInd_max, io.qyInd_max>>,
                  dim3 |-> ReadFrom(qx, io.offset_qx, io.qxInd_max),
                  dim4 |-> ReadFrom(qy, io.offset_qy, io.qyInd_max)]
     IN io' = [io EXCEPT !.n = @ + 1, !.cubes = Append(@, cube)]
  /\ UNCHANGED guiVars

S4D_return ==
  /\ io.op = "setup4DOutput"
  /\ io.pc = "declare"
  /\ ~(io.n < io.numLayers)
  /\ io' = [io EXCEPT !.pc = "done"]
  /\ UNCHANGED guiVars

NextSetup4D == S4D_extents \/ S4D_declare \/ S4D_return

SpecSetup4D == InitSetup4D /\ [][NextSetup4D]_vars

\* ------------------------------------------- fileIO.cpp: writeVirtualDataSet
\* a dataset: its extents and its elements in row-major order
Shapes   == {<<2>>, <<3>>, <<1, 2>>, <<2, 1>>}
RECURSIVE Count(_)
Count(d) == IF d = <<>> THEN 1 ELSE d[1] * Count(Tail(d))
\* the dataset numbered i holds 10 i + 1, 10 i + 2, ...
DataSet(i, d) == [dims |-> d, data |-> [k \in 1..Count(d) |-> 10 * i + k]]

NewRanks == 1..2
IndexTuples(r) == [1..r -> 0..MaxIdx]

NoVds == [dims |-> <<>>, maps |-> <<>>]

InitVDS ==
  /\ IdleWindow
  /\ \E n \in 1..MaxSrc, r \in NewRanks :
       \E ds \in [1..n -> Shapes], ix \in [1..n -> IndexTuples(r)] :
         io = [op |-> "writeVirtualDataSet", pc |-> "extents",
               datasets |-> [i \in 1..n |-> DataSet(i, ds[i])],
               indices |-> ix,
               mdims |-> <<>>, mdims_ind |-> <<>>, i |-> 1, plist |-> <<>>,
               vds |-> NoVds]

\* max_dims after the loop has seen the first i sources
RECURSIVE max_dims(_, _)
max_dims(indices, i) ==
  IF i = 0 THEN [j \in DOMAIN indices[1] |-> 0]
  ELSE LET m == max_dims(indices, i - 1)
       IN [j \in DOMAIN indices[1] |->
             IF m[j] < indices[i][j] THEN indices[i][j] ELSE m[j]]

\* variant: the extent of a new axis is the largest index itself
NewExtents_max(indices, i) == max_dims(indices, i)

\* mdims[rank + j] = max_dims[j] + 1
NewExtents(indices, i) ==
  [j \in DOMAIN indices[1] |-> max_dims(indices, i)[j] + 1]

\* new_rank, max_dims, rank and extents of datasets[0], mdims, mdims_ind
VDS_extents ==
  /\ io.op = "writeVirtualDataSet"
  /\ io.pc = "extents"
  /\ LET dims_out == io.datasets[1].dims
         ext == NewExtents(io.indices, Len(io.indices))
     IN io' = [io EXCEPT !.pc = "map",
                         !.mdims = dims_out \o ext,
                         !.mdims_ind = dims_out \o [j \in DOMAIN ext |-> 1]]
  /\ UNCHANGED guiVars

\* H5Pset_virtual: the mapping keeps copies of the two selections; it is
\* refused when they select different numbers of elements
Accepted(sel, src) == Count(sel.count) = Count(src.dims)
setVirtual(plist, sel, i) ==
  Append(plist, [start |-> sel.start, count |-> sel.count, src |-> i])

\* variant: every mapping is made at the selection of the first source
VDS_setVirtual_firstOffset ==
  /\ io.op = "writeVirtualDataSet"
  /\ io.pc = "map"
  /\ io.i <= Len(io.datasets)
  /\ LET sel == [start |-> io.indices[1], count |-> io.mdims_ind]
     IN IF Accepted(sel, io.datasets[io.i])
          THEN io' = [io EXCEPT !.i = @ + 1,
                                !.plist = setVirtual(@, sel, io.i)]
          ELSE io' = [io EXCEPT !.pc = "threw"]
  /\ UNCHANGED guiVars

\* one iteration of the loop over the sources: offset[j] = indices[i][j - rank],
\* vds_mspace.selectHyperslab(H5S_SELECT_SET, mdims_ind, offset), setVirtual
VDS_setVirtual ==
  /\ io.op = "writeVirtualDataSet"
  /\ io.pc = "map"
  /\ io.i <= Len(io.datasets)
  /\ LET sel == [start |-> io.indices[io.i], count |-> io.mdims_ind]
     IN IF Accepted(sel, io.datasets[io.i])
          THEN io' = [io EXCEPT !.i = @ + 1,
                                !.plist = setVirtual(@, sel, io.i)]
          ELSE io' = [io EXCEPT !.pc = "threw"]
  /\ UNCHANGED guiVars

\* group.createDataSet(dsetName, type, vds_mspace, plist) with all of mdims
\* selected
VDS_createDataSet ==
  /\ io.op = "writeVirtualDataSet"
  /\ io.pc = "map"
  /\ io.i > Len(io.datasets)
  /\ io' = [io EXCEPT !.pc = "done",
                      !.vds = [dims |-> io.mdims, maps |-> io.plist]]
  /\ UNCHANGED guiVars

NextVDS == VDS_extents \/ VDS_setVirtual \/ VDS_createDataSet

SpecVDS == InitVDS /\ [][NextVDS]_vars

\* ------------------------------------------------- fileIO.cpp: depthSeriesSG
\* realslices holds the groups virtual_detector_depth0000 .. (N-1), all
\* declared with the same extents; group i has the dataset realslice, the
\* attribute output_depth and the axis descriptors dim1 .. dimR
Depths == 1..3
DimSet(i, R) == [k \in 1..R |-> [name |-> k, values |-> 100 * i + k]]
RealSlice(i, d, depth, R) ==
  [realslice |-> DataSet(i, d), output_depth |-> depth, dim |-> DimSet(i, R)]

NoSupergroup == [dataset |-> NoVds, dim |-> <<>>, sgdim |-> <<>>]

InitDepthSeries ==
  /\ IdleWindow
  /\ \E n \in 1..MaxSrc, d \in Shapes :
       \E depth \in [0..(n - 1) -> Depths] :
         io = [op |-> "depthSeriesSG", pc |-> "count",
               realslices |->
                 [i \in 0..(n - 1) |-> RealSlice(i, d, depth[i], Len(d))],
               numDataSets |-> 0, i |-> 0,
               datasets |-> <<>>, indices |-> <<>>, depths |-> <<>>,
               supergroup |-> NoSupergroup]

\* getDigitString(n) names group n; group.nameExists(basename + digits)
nameExists(group, n) == n \in DOMAIN group

\* countDataGroups: count = 0; while (nameExists(basename + digits(count)))
\* count += 1; the count reached from c on
RECURSIVE countDataGroups(_, _)
countDataGroups(group, c) ==
  IF nameExists(group, c) THEN countDataGroups(group, c + 1) ELSE c

\* countDimensions: the number of dim1, dim2, ... that exist
RECURSIVE countDimensions(_, _)
countDimensions(dim, c) ==
  IF c \in DOMAIN dim THEN countDimensions(dim, c + 1) ELSE c - 1

DSG_count ==
  /\ io.op = "depthSeriesSG"
  /\ io.pc = "count"
  /\ io' = [io EXCEPT !.pc = "gather",
                      !.numDataSets = countDataGroups(io.realslices, 0)]
  /\ UNCHANGED guiVars

\* variant: every source is given the index of the first
DSG_gather_sameIndex ==
  /\ io.op = "depthSeriesSG"
  /\ io.pc = "gather"
  /\ io.i < io.numDataSets
  /\ LET g == io.realslices[io.i]
     IN io' = [io EXCEPT !.i = @ + 1,
                         !.datasets = Append(@, g.realslice),
                         !.indices = Append(@, <<0>>),
                         !.depths = Append(@, g.output_depth)]
  /\ UNCHANGED guiVars

\* one iteration of the gathering loop: datasets.push_back(realslice),
\* indices.push_back({i}), depths.push_back(output_depth)
DSG_gather ==
  /\ io.op = "depthSeriesSG"
  /\ io.pc = "gather"
  /\ io.i < io.numDataSets
  /\ LET g == io.realslices[io.i]
     IN io' = [io EXCEPT !.i = @ + 1,
                         !.datasets = Append(@, g.realslice),
                         !.indices = Append(@, <<io.i>>),
                         !.depths = Append(@, g.output_depth)]
  /\ UNCHANGED guiVars

\* the property list after the mapping loop of writeVirtualDataSet has seen
\* the first i sources
RECURSIVE Mappings(_, _, _)
Mappings(datasets, indices, i) ==
  IF i = 0 THEN <<>>
  ELSE setVirtual(Mappings(datasets, indices, i - 1),
                  [start |-> indices[i],
                   count |-> datasets[1].dims \o [j \in DOMAIN indices[1] |-> 1]],
                  i)

\* writeVirtualDataSet(depthSeries, "supergroup", datasets, indices)
DSG_writeVirtualDataSet ==
  /\ io.op = "depthSeriesSG"
  /\ io.pc = "gather"
  /\ ~(io.i < io.numDataSets)
  /\ LET n == Len(io.datasets)
         count == io.datasets[1].dims \o [j \in DOMAIN io.indices[1] |-> 1]
     IN IF \A i \in 1..n :
            Accepted([start |-> io.indices[i], count |-> count], io.datasets[i])
          THEN io' = [io EXCEPT
                 !.pc = "configure",
                 !.supergroup.dataset =
                    [dims |-> io.datasets[1].dims \o NewExtents(io.indices, n),
                     maps |-> Mappings(io.datasets, io.indices, n)]]
          ELSE io' = [io EXCEPT !.pc = "threw"]
  /\ UNCHANGED guiVars

\* configureSupergroup(depthSeries, firstGroup, {depths}, {"Depth"}, {"[A]"}):
\* dim1 .. dimR of the first group are copied, sgdim1 is created
DSG_configureSupergroup ==
  /\ io.op = "depthSeriesSG"
  /\ io.pc = "configure"
  /\ LET first   == io.realslices[0]
         numDims == countDimensions(first.dim, 1)
     IN io' = [io EXCEPT
                 !.pc = "done",
                 !.supergroup.dim = [k \in 1..numDims |-> first.dim[k]],
                 !.supergroup.sgdim =
                    <<[name |-> "Depth", units |-> "[A]", values |-> io.depths]>>]
  /\ UNCHANGED guiVars

NextDepthSeries ==
  \/ DSG_count
  \/ DSG_gather
  \/ DSG_writeVirtualDataSet
  \/ DSG_configureSupergroup

SpecDepthSeries == InitDepthSeries /\ [][NextDepthSeries]_vars

\* ------------------------------------------------------------------- claims
Done(t)    == th[t].pc = "done"
Aborted(t) == hist[t].found \in {"inaccessible", "declined"}

\* params.meta as the run has it when it decides between reuse and recompute
RunMeta(t) == FirstParams(th[t].kind, hist[t].base).meta

InPass(t) == th[t].pc \in {"fl_kpot", "fl_recv", "fl_kS", "fl_kout"}

\* C1: a thread executes a stage kernel (of pass 0 or of a frozen pass) only
\* while it holds calculationLock, so no two threads are inside a kernel at
\* the same time.
C1_KernelsUnderLock ==
  /\ \A t \in Threads : InKernel(t) => calculationLock = t
  /\ \A t, u \in Threads : InKernel(t) /\ InKernel(u) => t = u

\* a frozen pass of one run is inside its output kernel while a thread of
\* another kind waits for the calculation lock
C1_Witness ==
  \E t, u \in Threads :
    /\ th[t].pc = "fl_kout"
    /\ th[u].pc \in {"pt_lock", "pr_lock"}

\* C2: two sequences run one after the other with the same metadata, the
\* caller's metadata unchanged: the potential kernel is invoked once in total,
\* and the S-matrix kernel at most once.
C2_OneKernelCallPerStage ==
  ( /\ edits = 0
    /\ \A t \in Threads :
         Done(t) /\ ~Aborted(t) /\ ~hist[t].threw /\ ~hist[t].overlapped
    /\ \A t \in Threads : hist[t].base = meta )
  => calls.pot = 1 /\ calls.S <= 1

\* C3: a run that takes the reuse branch proceeds with a potential that was
\* computed from its own metadata (the potential cached for other metadata is
\* never reused).
C3_NoReuseAcrossMetadata ==
  \A t \in Threads :
    Running(t) /\ hist[t].reused =>
      /\ th[t].params.pot.id # 0
      /\ MetaEq(th[t].params.pot.from, RunMeta(t))

\* C4: while a readiness flag is true, the artifact of that stage held in
\* parent->pars was computed from metadata equal to parent->pars.meta.
C4_ReadyArtifactMatchesStoredMeta ==
  /\ flags.potentialReady /\ pars.pot.id # 0
       => MetaEq(pars.pot.from, pars.meta)
  /\ flags.ScompactReady /\ pars.Scompact.id # 0
       => MetaEq(pars.Scompact.from, pars.meta)

\* C5: while the S-matrix readiness flag is true, the cached S-matrix was
\* computed on the cached potential (every recomputation of the potential has
\* invalidated the S-matrix).
C5_SMatrixReadyOnCachedPotential ==
  flags.ScompactReady =>
    /\ pars.Scompact.id # 0
    /\ pars.Scompact.on = pars.pot.id

\* C6: a full calculation removes or truncates an existing file only if the
\* caller confirmed the overwrite for this request.
C6_NoClobberWithoutConfirmation ==
  \A t \in Threads : hist[t].clobbered => hist[t].answer = "accept"

MeanOut(t) == [n |-> hist[t].sumOut, d |-> hist[t].nPass]

\* C8: the output tensor a full calculation stores into the cache and hands to
\* outputReceived is (v1 + ... + vN) / N, for the N tensors v1..vN its output
\* kernels returned.
C8_OutputIsMean ==
  \A t \in Threads :
    /\ hist[t].stored.d # 0 => REq(hist[t].stored, MeanOut(t))
    /\ hist[t].handed.d # 0 => REq(hist[t].handed, MeanOut(t))
    /\ Done(t) /\ hist[t].nPass > 0 /\ ~hist[t].threw => hist[t].handed.d # 0

\* a run of at least two passes with different outputs has handed over its mean
C8_Witness ==
  \E t \in Threads :
    /\ Done(t)
    /\ hist[t].nPass >= 2
    /\ hist[t].sumOut % hist[t].nPass # 0
    /\ hist[t].handed.d # 0

\* the run stored its result with the centre of mass enabled, in this->meta
\* and in the Parameters it continued with
DpcStored(t) ==
  /\ hist[t].stored.d # 0
  /\ hist[t].dpcOn
  /\ th[t].meta.saveDPC_CoM

\* C9, as claimed: the accumulated centre-of-mass tensor is
\* (|s1| + ... + |sN|) / N.
C9_MeanOfMagnitudes ==
  \A t \in Threads :
    DpcStored(t) =>
      REq(hist[t].storedDpc, [n |-> hist[t].sumAbsDpc, d |-> hist[t].nPass])

\* C9, amended: the accumulated centre-of-mass tensor is the signed mean
\* (s1 + ... + sN) / N; no magnitude is taken.
C9_SignedMean ==
  \A t \in Threads :
    DpcStored(t) =>
      REq(hist[t].storedDpc, [n |-> hist[t].sumDpc, d |-> hist[t].nPass])

\* a run of at least two passes whose centre-of-mass tensors differ in sign
C9_Witness ==
  \E t \in Threads :
    /\ DpcStored(t)
    /\ hist[t].nPass >= 2
    /\ hist[t].sumDpc # hist[t].sumAbsDpc
    /\ hist[t].sumDpc # 0 - hist[t].sumAbsDpc

\* C10: the metadata a frozen pass is built from carries the seed drawn for
\* the pass and equals the run's base metadata in every other field.
C10_PassMetaDiffersInSeedOnly ==
  \A t \in Threads :
    InPass(t) =>
      th[t].inner.meta =
        [hist[t].base EXCEPT !.randomSeed = th[t].params.meta.randomSeed]

\* no part of the result of run t has reached the cache or the caller
Unpublished(t) == hist[t].stored.d = 0 /\ hist[t].handed.d = 0

\* C11: when a stage kernel throws, in pass 0 or in a frozen pass, the run is
\* over and holds neither calculationLock nor dataLock, it executes no further
\* pass, no averaged result is stored into the cache or handed to
\* outputReceived, and the step of the failure leaves the output files, the
\* cache and the announced output as they were.
C11_FailureReleasesAndStops ==
  /\ [](\A t \in Threads :
          hist[t].threw =>
            /\ Done(t)
            /\ calculationLock # t /\ dataLock # t
            /\ Unpublished(t))
  /\ [][\A t \in Threads :
          /\ hist[t].threw =>
                /\ hist'[t].nPass = hist[t].nPass
                /\ hist'[t].kernels = hist[t].kernels
          /\ hist'[t].threw /\ ~hist[t].threw =>
                /\ fs' = fs
                /\ pars' = pars
                /\ output' = output]_vars

\* a run failed inside a frozen pass, after pass 0 had written to its file;
\* the file is still there and another run holds the calculation lock
C11_Witness ==
  \E t, u \in Threads :
    /\ hist[t].threw
    /\ hist[t].nPass >= 1
    /\ hist[t].base.filenameOutput \in Paths
    /\ fs[hist[t].base.filenameOutput].exists
    /\ fs[hist[t].base.filenameOutput].by = t
    /\ fs[hist[t].base.filenameOutput].writes > 0
    /\ calculationLock = u

\* the positions of a full calculation from its first cache test to the
\* persistence of its output
FullBody == {"fc_check", "fc_kpot", "fc_store1", "fc_recv", "fc_kS", "fc_kout",
             "fc_loop", "fl_kpot", "fl_recv", "fl_kS", "fl_kout",
             "fc_store2", "fc_save"}

\* C12: a full calculation holds calculationLock at every position from its
\* first stage to the persistence of its output, gives it up only as run()
\* ends, and no other thread executes a lock-protected step in between.
C12_LockHeldThroughout ==
  /\ [](\A t \in Threads :
          th[t].pc \in FullBody =>
            /\ calculationLock = t
            /\ \A u \in Threads \ {t} :
                  th[u].pc \notin FullBody /\ ~InKernel(u)
                    /\ th[u].pc \notin {"pt_recv", "pr_check1", "pr_store1",
                                        "pr_recv", "pr_check2", "pr_store2",
                                        "pr_probe", "pr_emit"})
  /\ [][\A t \in Threads :
          th[t].kind \in FullKinds /\ calculationLock = t /\ calculationLock' # t
            => th'[t].pc = "done"]_vars

\* a run of several passes is persisting its output while another full
\* calculation waits for the calculation lock
C12_Witness ==
  \E t, u \in Threads :
    /\ th[t].pc = "fc_save"
    /\ hist[t].nPass >= 2
    /\ th[u].pc = "fc_lock"

\* C13: a calculation thread reads and writes the shared cache state, the
\* metadata its reuse test compares included, only while it holds dataLock.
C13_CacheAccessUnderDataLock ==
  \A t \in Threads : hist[t].bare = {}

\* what a call has to add to the dataset element p: element k of the caller's
\* buffer divided by numFP, k being the position of p in the region with the
\* two trailing axes exchanged; nothing outside the region
Contribution(wx, p) ==
  LET d == wx.r.mdims
      K == {k \in 0..(Size(d) - 1) : FilePos(wx.r, k) = p}
  IN IF K = {} THEN Val(0)
     ELSE LET c == Unravel(CHOOSE k \in K : TRUE, d)
              j == ((c[1] * d[2] + c[2]) * d[4] + c[4]) * d[3] + c[3]
          IN RDiv(Buffer(wx.r, wx.v0)[j], wx.numFP)

\* C14: after any number of concurrent writeDatacube4D calls have returned,
\* every element of the dataset is its initial value plus the contributions
\* of all the calls: no update is lost.
C14_NoLostUpdate ==
  io.op = "writeDatacube4D" =>
    ( (\A x \in Writers : io.w[x].pc = "done") =>
        \A p \in DOMAIN io.disk :
          REq(io.disk[p],
              RAdd(RAdd(Disk0[p], Contribution(io.w[1], p)),
                   Contribution(io.w[2], p))) )

\* C15: when a call has written, every element of the region is its previous
\* value plus the transposed buffer element divided by numFP, and every
\* element outside the region is unchanged.
C15_RegionAccumulated ==
  io.op = "writeDatacube4D" =>
    \A x \in Writers :
      io.w[x].pc = "written" =>
        \A p \in DOMAIN io.disk :
          REq(io.disk[p], RAdd(io.w[x].before[p], Contribution(io.w[x], p)))

\* the number k of contiguous samples of q, counted from the first, that are
\* strictly below qMax
Below(q, qMax) ==
  CHOOSE k \in 0..Len(q) :
    /\ \A i \in 1..k : q[i] < qMax
    /\ k = Len(q) \/ q[k + 1] >= qMax

\* C16: with cropping enabled, every declared datacube has extent 2k along
\* each frequency axis and its descriptors dim3 and dim4 have length 2k, k
\* being the count of leading samples of that axis strictly below qMax.
C16_CroppedExtentIsTwiceCount ==
  io.op = "setup4DOutput" /\ io.crop4DOutput =>
    \A c \in 1..Len(io.cubes) :
      /\ io.cubes[c].data_dims = <<2 * Below(io.qx, io.qMax),
                                   2 * Below(io.qy, io.qMax)>>
      /\ Len(io.cubes[c].dim3) = 2 * Below(io.qx, io.qMax)
      /\ Len(io.cubes[c].dim4) = 2 * Below(io.qy, io.qMax)

\* two cropped datacubes are declared; the scan of the first axis stopped at a
\* sample at the cutoff, the scan of the second axis ran to its end
C16_Witness ==
  /\ io.op = "setup4DOutput"
  /\ io.crop4DOutput
  /\ io.pc = "done"
  /\ Len(io.cubes) = 2
  /\ Below(io.qx, io.qMax) \in 1..(Len(io.qx) - 1)
  /\ io.qx[Below(io.qx, io.qMax) + 1] = io.qMax
  /\ Below(io.qy, io.qMax) = Len(io.qy)

\* the rank of the datasets handed to the stitcher, and whether the stitcher
\* has returned or thrown
SrcRank   == Len(io.datasets[1].dims)
VdsEnded  == io.pc \in {"done", "threw"}
Created   == io.vds # NoVds

\* C17: the synthetic dataset has rank (source rank + number of new axes),
\* its leading extents are those of the first source and the extent of new
\* axis j is 1 + the largest j-th index of all sources.
C17_VdsExtents ==
  io.op = "writeVirtualDataSet" /\ Created =>
    /\ Len(io.vds.dims) = SrcRank + Len(io.indices[1])
    /\ \A a \in 1..SrcRank : io.vds.dims[a] = io.datasets[1].dims[a]
    /\ \A j \in 1..Len(io.indices[1]) :
          /\ \E i \in DOMAIN io.indices :
                io.vds.dims[SrcRank + j] = 1 + io.indices[i][j]
          /\ \A i \in DOMAIN io.indices :
                io.vds.dims[SrcRank + j] >= 1 + io.indices[i][j]

\* a synthetic dataset of two sources and two new axes, the largest index of
\* the first axis held by the first source, that of the second by the second
C17_Witness ==
  /\ io.op = "writeVirtualDataSet"
  /\ Created
  /\ Len(io.datasets) = 2
  /\ Len(io.indices[1]) = 2
  /\ io.indices[1][1] > io.indices[2][1]
  /\ io.indices[1][2] < io.indices[2][2]

\* the sources disagree in rank or in an extent
Mismatch ==
  \E i \in DOMAIN io.datasets : io.datasets[i].dims # io.datasets[1].dims

\* C18: when the sources disagree in rank or extents the stitcher fails and
\* creates no synthetic dataset.
C18_MismatchRejected ==
  io.op = "writeVirtualDataSet" /\ Mismatch /\ VdsEnded =>
    io.pc = "threw" /\ ~Created

\* the elements a read of the synthetic dataset at index tuple t can return
ReadAt(t) ==
  {io.datasets[io.vds.maps[m].src].data :
     m \in {m \in DOMAIN io.vds.maps : io.vds.maps[m].start = t}}

\* C19: with pairwise distinct index tuples, the one-element hyperslab at
\* the tuple of source i reads the elements of source i, region and source
\* have the same number of elements, and source i is mapped nowhere else.
C19_EachSourceAtItsTuple ==
  ( /\ io.op = "writeVirtualDataSet"
    /\ Created
    /\ \A i, k \in DOMAIN io.indices : i # k => io.indices[i] # io.indices[k] )
  => \A i \in DOMAIN io.datasets :
       /\ ReadAt(io.indices[i]) = {io.datasets[i].data}
       /\ \A m \in DOMAIN io.vds.maps :
             io.vds.maps[m].src = i =>
               /\ io.vds.maps[m].start = io.indices[i]
               /\ Count(io.vds.maps[m].count) = Count(io.datasets[i].dims)
               /\ io.vds.maps[m].count =
                    io.datasets[1].dims \o [j \in DOMAIN io.indices[1] |-> 1]

\* two sources stitched along two new axes at different index tuples, the
\* first source not at the origin
C19_Witness ==
  /\ io.op = "writeVirtualDataSet"
  /\ Created
  /\ Len(io.datasets) = 2
  /\ Len(io.indices[1]) = 2
  /\ io.indices[1] # io.indices[2]
  /\ io.indices[1] # [j \in 1..2 |-> 0]
  /\ io.indices[2] # [j \in 1..2 |-> 0]

\* the number of per-depth groups of the file
NGroups == Cardinality(DOMAIN io.realslices)

\* C20: for N per-depth groups, the supergroup dataset has the extents of a
\* source and one added axis of extent N, source i is mapped at index i and
\* nowhere else, the descriptors dim1..dimR of the first source are copied,
\* and the one added descriptor sgdim1 is named Depth and holds the N
\* output_depth values in the order of the sources.
C20_DepthSeries ==
  io.op = "depthSeriesSG" /\ io.pc = "done" =>
    LET sg == io.supergroup IN
      /\ sg.dataset.dims = io.realslices[0].realslice.dims \o <<NGroups>>
      /\ Len(sg.dataset.maps) = NGroups
      /\ \A i \in 0..(NGroups - 1) :
            \E m \in DOMAIN sg.dataset.maps :
              /\ sg.dataset.maps[m].start = <<i>>
              /\ io.datasets[sg.dataset.maps[m].src] = io.realslices[i].realslice
      /\ sg.dim = io.realslices[0].dim
      /\ Len(sg.sgdim) = 1
      /\ sg.sgdim[1].name = "Depth"
      /\ Len(sg.sgdim[1].values) = NGroups
      /\ \A i \in 0..(NGroups - 1) :
            sg.sgdim[1].values[i + 1] = io.realslices[i].output_depth

\* a series of at least two depths whose recorded depths decrease and whose
\* sources have two axis descriptors
C20_Witness ==
  /\ io.op = "depthSeriesSG"
  /\ io.pc = "done"
  /\ NGroups >= 2
  /\ io.realslices[0].output_depth > io.realslices[1].output_depth
  /\ Len(io.realslices[0].dim) = 2

\* C21: a thread inside a stage kernel (PRISM01_calcPotential,
\* PRISM02_calcSMatrix, PRISM03_calcOutput, Multislice_calcOutput) does not
\* hold dataLock, and the step of a kernel leaves dataLock and the cached
\* parent->pars as they were: a reader of the cache does not wait for the
\* kernel and finds the snapshot stored before it.
C21_NoKernelUnderDataLock ==
  /\ [](\A t \in Threads : InKernel(t) => dataLock # t)
  /\ [][\A t \in Threads :
          InKernel(t) /\ th'[t] # th[t] =>
            /\ dataLock' = dataLock
            /\ pars' = pars]_vars

\* a ProbeThread is inside the S-matrix kernel after it has stored its
\* potential under dataLock; dataLock is free and the cache holds that store
C21_Witness ==
  \E t \in Threads :
    /\ th[t].pc = "pr_kS"
    /\ "dataLock" \in hist[t].locks
    /\ dataLock = NoThread
    /\ pars.pot.id # 0
    /\ pars.pot = th[t].params.pot

\* the descriptor of extent e that starts at offset o of axis q
Descriptor(q, o, e) == SubSeq(q, o + 1, o + e)

\* the declared datacubes have extents ex, ey along the frequency axes and
\* descriptors of these extents starting at offsets ox, oy of the axes ax, ay
Declared(ex, ey, ox, oy, ax, ay) ==
  \A c \in 1..Len(io.cubes) :
    /\ io.cubes[c].data_dims = <<ex, ey>>
    /\ io.cubes[c].dim3 = Descriptor(ax, ox, ex)
    /\ io.cubes[c].dim4 = Descriptor(ay, oy, ey)

Uncropped == io.op = "setup4DOutput" /\ ~io.crop4DOutput

\* C22, as claimed: without cropping, the PRISM mode declares the full axis
\* at offset 0 and the multislice mode declares one quarter of the probe
\* array's extent, the descriptor starting at one quarter of that extent.
C22_UncroppedQuarter ==
  Uncropped =>
    IF io.algorithm = "Multislice"
      THEN Declared(Len(io.qx) \div 4, Len(io.qy) \div 4,
                    Len(io.qx) \div 4, Len(io.qy) \div 4,
                    fftshift(io.qx), fftshift(io.qy))
      ELSE Declared(Len(io.qx), Len(io.qy), 0, 0, io.qx, io.qy)

\* C22, amended: without cropping, the PRISM mode declares the full axis at
\* offset 0 and the multislice mode declares one half of the probe array's
\* extent, the descriptor starting at one quarter of that extent of the
\* shifted axis.
C22_UncroppedHalf ==
  Uncropped =>
    IF io.algorithm = "Multislice"
      THEN Declared(Len(io.qx) \div 2, Len(io.qy) \div 2,
                    Len(io.qx) \div 4, Len(io.qy) \div 4,
                    fftshift(io.qx), fftshift(io.qy))
      ELSE Declared(Len(io.qx), Len(io.qy), 0, 0, io.qx, io.qy)

\* an uncropped multislice datacube over axes of four samples is declared:
\* extent two from offset one, the shifted axis differing from the axis
C22_Witness ==
  /\ Uncropped
  /\ io.algorithm = "Multislice"
  /\ io.pc = "done"
  /\ Len(io.cubes) >= 1
  /\ Len(io.qx) = 4 /\ Len(io.qy) = 4
  /\ io.offset_qx = 1 /\ io.qxInd_max = 2
  /\ fftshift(io.qx) # io.qx

\* C30: the extent E and offset O computed for a frequency axis of n samples
\* satisfy O + E <= n, in both modes and with or without cropping, and no
\* element of a written axis descriptor comes from beyond the axis array.
C30_DescriptorWithinAxis ==
  io.op = "setup4DOutput" /\ io.pc # "extents" =>
    /\ io.offset_qx + io.qxInd_max <= Len(io.qx)
    /\ io.offset_qy + io.qyInd_max <= Len(io.qy)
    /\ \A c \in 1..Len(io.cubes) :
          /\ \A i \in DOMAIN io.cubes[c].dim3 : io.cubes[c].dim3[i] # "junk"
          /\ \A i \in DOMAIN io.cubes[c].dim4 : io.cubes[c].dim4[i] # "junk"

\* the fields of the metadata that only the caller sets: no thread assigns them
CallerSet(m) ==
  [sliceThickness |-> m.sliceThickness, filenameOutput |-> m.filenameOutput,
   numFP |-> m.numFP]

\* C23: a running thread configures the run (this->meta), invokes its kernels
\* (params, and the Parameters of a frozen pass) and writes its output with
\* the caller-set metadata it copied when it was constructed, whatever the
\* caller has changed since and however the threads interleave.
C23_RunsWithConstructionMetadata ==
  \A t \in Threads :
    Running(t) =>
      /\ CallerSet(th[t].meta) = CallerSet(hist[t].base)
      /\ CallerSet(th[t].params.meta) = CallerSet(hist[t].base)
      /\ InPass(t) => CallerSet(th[t].inner.meta) = CallerSet(hist[t].base)

\* the positions at which a thread, holding calculationLock, reads the
\* potential readiness flag
Observes(t) == th[t].pc \in {"pr_check1", "fc_check"}

\* C24: when a thread holding calculationLock reads the potential readiness
\* flag as true, parent->pars holds the potential that was announced with the
\* flag; and when a PotentialThread stores into parent->pars after it has
\* released calculationLock, no thread that took the lock after it has
\* stored into parent->pars.
C24_FlagAfterStore ==
  /\ [](\A t \in Threads :
          Observes(t) /\ calculationLock = t /\ potentialIsReady =>
            pars.pot.id # 0 /\ pars.pot.id = potential.id)
  /\ [][\A t \in Threads :
          th[t].pc = "pt_store" /\ th'[t].pc = "done" =>
            \A u \in Threads \ {t} :
              Running(u) => "pars" \notin hist[u].wrote]_vars

\* the file at the output path of run t is the one t created
OwnFile(t) ==
  LET p == hist[t].base.filenameOutput
  IN p \in Paths /\ fs[p].exists /\ fs[p].by = t

\* C25: from the creation of its output file to the end of run(), a full
\* calculation holds calculationLock and the file at its output path is the
\* one it created: no other thread removes or truncates it, and the remove of
\* a pre-flight step hits no file of a run in progress.
C25_OutputFileUntouched ==
  /\ [](\A t \in Threads : th[t].pc \in FullBody => OwnFile(t))
  /\ [][\A t, u \in Threads :
          /\ th[t].pc \in FullBody
          /\ th[u].pc = "fc_remove" /\ th'[u].pc # "fc_remove"
          => th[u].params.meta.filenameOutput # hist[t].base.filenameOutput]_vars

\* run t is between the caller's answer to its overwrite request and its
\* flipOverwrite()
Answered(t) == th[t].pc \in {"fc_ovr", "fc_remove", "fc_flip"}

\* C26: when no run is between the answer to its overwrite request and its
\* flipOverwrite(), the overwrite flag is false; and a run removes a file
\* only if the caller accepted the request of that run.
C26_OneDeletionPerConfirmation ==
  /\ []((\A t \in Threads : ~Answered(t)) => ~overwriteFile)
  /\ [][\A t \in Threads :
          th[t].pc = "fc_remove" /\ th'[t].pc # "fc_remove" =>
            hist[t].answer = "accept"]_vars

\* the output path, the pass count and the output selection of metadata m
Submitted(m) ==
  [filenameOutput |-> m.filenameOutput, numFP |-> m.numFP,
   save4DOutput |-> m.save4DOutput, saveDPC_CoM |-> m.saveDPC_CoM,
   savePotentialSlices |-> m.savePotentialSlices]

\* C27: a full calculation that has taken the reuse branch continues with the
\* output path, the pass count and the output-selection flags of the metadata
\* the caller submitted for it, whichever thread stored the cache.
C27_ReuseKeepsSubmittedMetadata ==
  \A t \in Threads :
    th[t].kind \in FullKinds /\ Running(t) /\ hist[t].reused =>
      Submitted(th[t].params.meta) = Submitted(hist[t].base)

\* h is the open handle run t created on its output path
OwnHandle(t, h) ==
  h = [path |-> hist[t].base.filenameOutput, open |-> TRUE, by |-> t]

\* C28: from setupOutputFile to outputFile.close(), through the cache test
\* and its reuse branch, params.outputFile of a full calculation is the open
\* handle the run created; the output kernel of pass 0 and of every frozen
\* pass operates on an open handle on the run's output path.
C28_StoreOnOwnOpenHandle ==
  \A t \in Threads :
    /\ th[t].pc \in {"fc_check", "fc_kpot", "fc_store1", "fc_recv", "fc_kS",
                     "fc_kout"}
          => OwnHandle(t, th[t].params.outputFile)
    /\ th[t].pc = "fl_kout" =>
          /\ th[t].inner.outputFile.open
          /\ th[t].inner.outputFile.path = hist[t].base.filenameOutput

\* the positions at which run() blocks for calculationLock, and for dataLock
WaitsCalculation(t) == th[t].pc \in {"pt_lock", "pr_lock", "fc_lock"}
WaitsData(t) ==
  th[t].pc \in {"pt_store", "pr_store1", "pr_store2", "pr_probe",
                "fc_store1", "fc_store2"}

\* C29: a thread that waits for calculationLock holds no lock, a thread that
\* waits for dataLock does not hold it, and a thread whose run() has ended
\* holds no lock; every started thread eventually ends, and when all started
\* threads have ended both locks are free.
C29_NoDeadlock ==
  /\ [](\A t \in Threads :
          /\ WaitsCalculation(t) => calculationLock # t /\ dataLock # t
          /\ WaitsData(t) => dataLock # t
          /\ ~Running(t) => calculationLock # t /\ dataLock # t)
  /\ \A t \in Threads : Running(t) ~> Done(t)
  /\ []((\A t \in Threads : ~Running(t)) =>
          calculationLock = NoThread /\ dataLock = NoThread)

\* a ProbeThread holds both locks at the end of its run() while a
\* PotentialThread waits for dataLock and has released calculationLock
C29_Witness ==
  \E t, u \in Threads :
    /\ th[t].pc = "pr_emit"
    /\ calculationLock = t /\ dataLock = t
    /\ th[u].pc = "pt_store"

====
